---- MODULE Spec2Model ----
(***************************************************************************)
(* CAN log analyzer (can_log_plotter3.1.py): the ingestion unit            *)
(* (LogLoaderThread), the preparation unit (PlotterThread) and the         *)
(* handlers of CANAnalyzerApp that start them and receive their signals.   *)
(*                                                                         *)
(* Worker threads run concurrently with the GUI thread.  A signal emitted  *)
(* by a worker is a queued call: it is appended to the GUI thread's event  *)
(* queue and its slot runs later, on the GUI thread, in posting order.     *)
(* Handlers of the GUI thread run one at a time.                           *)
(*                                                                         *)
(* Timestamps are integer ticks.  A series key "<a>.<b>" is the pair       *)
(* <<a, b>>.  A Python dict that is shared by reference lives in heap.     *)
(***************************************************************************)
EXTENDS Integers, Sequences, FiniteSets, TLC

\* ------------------------------------------------------------------ bounds
\* Most LogLoaderThread objects created in one behaviour.
MaxLoads == 2
\* Most PlotterThread objects created in one behaviour.
MaxPlots == 1

\* ------------------------------------------------------------ input values
NoFile == "None"
NoDb == "None"

\* One record of a log file as the python-can reader meets it: a frame that
\* it yields, a malformed record that it skips, or one on which it raises.
Frame(ts, id, data, dlc) ==
  [kind |-> "frame", timestamp |-> ts, arbitration_id |-> id, data |-> data, dlc |-> dlc]
SkippedRecord == [kind |-> "skip", timestamp |-> 0, arbitration_id |-> 0, data |-> <<>>, dlc |-> 0]
RaisingRecord == [kind |-> "raise", timestamp |-> 0, arbitration_id |-> 0, data |-> <<>>, dlc |-> 0]

\* The files a load can name: extension, whether the reader can open it,
\* its number of text lines (the total-frame estimate) and its records.
LogFile(ext, openable, lines, records) ==
  [ext |-> ext, openable |-> openable, lines |-> lines, records |-> records]

FileNames ==
  {"short.asc", "drive.asc", "mux.BLF", "bad.csv", "remote.asc", "trunc.csv", "notes.txt",
   "gone.csv", "empty.blf", "plot.blf", "diag.asc", "dup.csv", "dense.blf"}

\* The files the user of the application picks or drops.
AppFiles == {"short.asc", "bad.csv", "notes.txt"}

FileOf(name) ==
  CASE name = "short.asc" ->
         LogFile(".asc", TRUE, 3,
                 << SkippedRecord, Frame(0, 256, <<4, 1>>, 2), Frame(1, 512, <<0, 7, 9>>, 3) >>)
    [] name = "drive.asc" ->
         LogFile(".asc", TRUE, 4,
                 << Frame(0, 256, <<4, 1>>, 2), Frame(1, 768, <<5>>, 1), Frame(2, 512, <<1, 7, 9>>, 3) >>)
    [] name = "mux.BLF" ->
         LogFile(".BLF", TRUE, 0,
                 << Frame(0, 512, <<2, 7, 9>>, 3), Frame(1, 256, <<4>>, 1) >>)
    [] name = "bad.csv" ->
         LogFile(".csv", TRUE, 1,
                 << Frame(0, 256, <<4, 1>>, 2), RaisingRecord, Frame(2, 256, <<5, 1>>, 2) >>)
    [] name = "trunc.csv" ->
         LogFile(".csv", TRUE, 6,
                 << Frame(3, 512, <<1>>, 1), Frame(3, 256, <<7, 2, 8>>, 3), Frame(2, 512, <<>>, 0) >>)
    [] name = "empty.blf" ->
         LogFile(".blf", TRUE, 1, << >>)
    [] name = "plot.blf" ->
         LogFile(".blf", TRUE, 0,
                 << Frame(1, 256, <<4, 1>>, 2), Frame(0, 256, <<6, 1>>, 2) >>)
    [] name = "remote.asc" ->
         LogFile(".asc", TRUE, 3,
                 << Frame(0, 256, <<4, 1>>, 2), SkippedRecord, Frame(1, 256, <<>>, 2) >>)
    [] name = "diag.asc" ->
         LogFile(".asc", TRUE, 2,
                 << Frame(0, 1024, <<3, 1, 2>>, 3), Frame(1, 1024, <<5, 1, 2>>, 3) >>)
    [] name = "dup.csv" ->
         LogFile(".csv", TRUE, 4,
                 << Frame(2, 256, <<5, 9>>, 2), Frame(1, 256, <<5, 3>>, 2),
                    Frame(2, 256, <<5, 7>>, 2), Frame(0, 256, <<5, 4>>, 2) >>)
    [] name = "dense.blf" ->
         LogFile(".blf", TRUE, 2,
                 << Frame(0, 256, <<4, 1>>, 2), Frame(1, 256, <<5, 1>>, 2),
                    Frame(2, 256, <<6, 1>>, 2) >>)
    [] name = "notes.txt" ->
         LogFile(".txt", TRUE, 2, << Frame(0, 256, <<4, 1>>, 2) >>)
    [] name = "gone.csv" ->
         LogFile(".csv", FALSE, 0, << >>)

\* str.lower() on the extensions that occur.
Lower(ext) ==
  CASE ext = ".BLF" -> ".blf"
    [] ext = ".ASC" -> ".asc"
    [] ext = ".CSV" -> ".csv"
    [] OTHER -> ext

\* ------------------------------------------------------------------ schema
\* kind is what message.decode hands back for the signal: a number, None,
\* or a value that float() rejects.
Signal(name, start, size, scale, offset, isMux, muxIds, kind) ==
  [name |-> name, start |-> start, size |-> size, scale |-> scale, offset |-> offset,
   is_multiplexer |-> isMux, multiplexer_ids |-> muxIds, kind |-> kind]

Message(name, length, signals) == [name |-> name, length |-> length, signals |-> signals]

\* The schema handles a schema load can produce (cantools databases).
DbNames == {"DB1"}

\* frame id -> message of the database.
MessagesOf(db) ==
  IF db = "DB1"
  THEN (256 :> Message("Engine", 2,
                  << Signal("RPM", 0, 1, 2, 0, FALSE, {}, "num"),
                     Signal("Load", 1, 1, 1, 10, FALSE, {}, "num") >>)
        @@ 512 :> Message("Body", 3,
                  << Signal("Mode", 0, 1, 1, 0, TRUE, {}, "num"),
                     Signal("Door", 1, 1, 1, 0, FALSE, {0}, "num"),
                     Signal("Lamp", 1, 1, 1, 0, FALSE, {1}, "num"),
                     Signal("Temp", 2, 1, 1, 0, FALSE, {}, "num") >>)
        @@ 1024 :> Message("Diag", 3,
                  << Signal("Volt", 0, 1, 1, 0, FALSE, {}, "num"),
                     Signal("Code", 1, 1, 1, 0, FALSE, {}, "text"),
                     Signal("Spare", 2, 1, 1, 0, FALSE, {}, "none") >>))
  ELSE << >>

\* ------------------------------------------------------------ series keys
\* f"ID_0x{arbitration_id:X}" for the identifiers that occur.
IdName(id) ==
  CASE id = 256 -> "ID_0x100"
    [] id = 512 -> "ID_0x200"
    [] id = 768 -> "ID_0x300"
    [] id = 1024 -> "ID_0x400"

\* f"Byte{i}"
ByteName(i) ==
  CASE i = 0 -> "Byte0"
    [] i = 1 -> "Byte1"
    [] i = 2 -> "Byte2"
    [] i = 3 -> "Byte3"

\* key = f"{message.name}.{signal_name}"
SignalKey(messageName, signalName) == <<messageName, signalName>>

\* key = f"ID_0x{msg.arbitration_id:X}.Byte{i}"
ByteKey(id, i) == <<IdName(id), ByteName(i)>>

ByteKeyPrefixes == {"ID_0x100", "ID_0x200", "ID_0x300", "ID_0x400"}

\* A dict entry  signals_data[key].append((timestamp, value)), the list
\* being created first when the key is new.
EnsureKey(sd, key) == IF key \in DOMAIN sd THEN sd ELSE sd @@ (key :> << >>)

AppendSample(sd, key, ts, v) == [sd EXCEPT ![key] = Append(@, <<ts, v>>)]

\* --------------------------------------------------- message.decode (cantools)
\* Little-endian unsigned field of sig.size bytes starting at byte sig.start.
RECURSIVE RawValue(_, _, _)
RawValue(data, start, size) ==
  IF size = 0 THEN 0
  ELSE data[start + 1] + 256 * RawValue(data, start + 1, size - 1)

\* allow_truncated pads short data with 0xFF, allow_excess trims long data.
PadTo(data, length) ==
  IF Len(data) >= length THEN SubSeq(data, 1, length)
  ELSE data \o [i \in 1..(length - Len(data)) |-> 255]

\* With allow_truncated, a signal that lies outside the bytes that are
\* there is left out of the result.
Omitted(sig, message, data) ==
  Len(data) < message.length /\ sig.start + sig.size > Len(data)

DecodedValue(sig, message, data) ==
  [name |-> sig.name, kind |-> sig.kind,
   v |-> RawValue(PadTo(data, message.length), sig.start, sig.size) * sig.scale + sig.offset]

RECURSIVE DecodeSignals(_, _, _)
DecodeSignals(sigs, message, data) ==
  IF sigs = << >> THEN << >>
  ELSE LET rest == DecodeSignals(Tail(sigs), message, data)
       IN IF Omitted(Head(sigs), message, data) THEN rest
          ELSE <<DecodedValue(Head(sigs), message, data)>> \o rest

\* message.decode(msg.data, decode_choices=False, allow_truncated=True,
\* scaling=True, allow_excess=True): the unconditional signals, then the
\* signals selected by the multiplexer value; DecodeError when the
\* multiplexer value selects no group.
Decode(message, data) ==
  LET Unconditional(s) == s.multiplexer_ids = {}
      IsMux(s) == s.is_multiplexer
      top == DecodeSignals(SelectSeq(message.signals, Unconditional), message, data)
      muxSigs == SelectSeq(message.signals, IsMux)
      allIds == UNION {message.signals[i].multiplexer_ids : i \in DOMAIN message.signals}
  IN IF muxSigs = << >> \/ Omitted(Head(muxSigs), message, data)
     THEN [raised |-> FALSE, items |-> top]
     ELSE LET mux == DecodedValue(Head(muxSigs), message, data).v
              Selected(s) == mux \in s.multiplexer_ids
          IN IF mux \notin allIds
             THEN [raised |-> TRUE, items |-> << >>]
             ELSE [raised |-> FALSE,
                   items |-> top \o DecodeSignals(SelectSeq(message.signals, Selected),
                                                  message, data)]

\* ------------------------------------------------- LogLoaderThread.run, one frame
\* for signal_name, value in decoded.items(): ...
RECURSIVE StoreDecoded(_, _, _, _)
StoreDecoded(sd, messageName, items, ts) ==
  IF items = << >> THEN sd
  ELSE LET item == Head(items)
           key == SignalKey(messageName, item.name)
           withKey == EnsureKey(sd, key)
           next == IF item.kind = "text" THEN withKey
                   ELSE AppendSample(withKey, key, ts,
                                     IF item.kind = "none" THEN 0 ELSE item.v)
       IN StoreDecoded(next, messageName, Tail(items), ts)

\* for i in range(msg.dlc): ... signals_data[key].append((msg.timestamp, msg.data[i]))
\* msg.data[i] raises IndexError when the payload has no byte i.
RECURSIVE StoreBytes(_, _, _)
StoreBytes(sd, msg, i) ==
  IF i >= msg.dlc THEN [raised |-> FALSE, sd |-> sd]
  ELSE LET key == ByteKey(msg.arbitration_id, i)
           withKey == EnsureKey(sd, key)
       IN IF i >= Len(msg.data) THEN [raised |-> TRUE, sd |-> withKey]
          ELSE StoreBytes(AppendSample(withKey, key, msg.timestamp, msg.data[i + 1]), msg, i + 1)

\* Mutant: the KeyError of an unknown identifier is not caught per frame.
DecodeWithSchema_KeyErrorEscapes(db, sd, msg) ==
  IF msg.arbitration_id \notin DOMAIN MessagesOf(db)
  THEN [raised |-> TRUE, sd |-> sd]
  ELSE LET message == MessagesOf(db)[msg.arbitration_id]
           decoded == Decode(message, msg.data)
       IN IF decoded.raised THEN [raised |-> FALSE, sd |-> sd]
          ELSE [raised |-> FALSE,
                sd |-> StoreDecoded(sd, message.name, decoded.items, msg.timestamp)]

\* The schema branch: KeyError of get_message_by_frame_id and any exception
\* of message.decode are caught per frame and leave signals_data as it was.
DecodeWithSchema(db, sd, msg) ==
  IF msg.arbitration_id \notin DOMAIN MessagesOf(db)
  THEN [raised |-> FALSE, sd |-> sd]
  ELSE LET message == MessagesOf(db)[msg.arbitration_id]
           decoded == Decode(message, msg.data)
       IN IF decoded.raised THEN [raised |-> FALSE, sd |-> sd]
          ELSE [raised |-> FALSE,
                sd |-> StoreDecoded(sd, message.name, decoded.items, msg.timestamp)]

\* The body of  for msg in reader  up to messages.append: the new
\* signals_data, and whether an exception leaves the loop.
ProcessFrame(db, sd, msg) ==
  IF db # NoDb THEN DecodeWithSchema(db, sd, msg) ELSE StoreBytes(sd, msg, 0)

\* Mutant: the row of the frame table does not carry the frame's timestamp.
MsgData_TimestampNotKept(msg) ==
  [timestamp |-> 0, arbitration_id |-> msg.arbitration_id,
   data |-> msg.data, dlc |-> msg.dlc]

\* msg_data as appended to messages.
MsgData(msg) ==
  [timestamp |-> msg.timestamp, arbitration_id |-> msg.arbitration_id,
   data |-> msg.data, dlc |-> msg.dlc]

\* Mutant: the value is not capped at 100.
Percent_Uncapped(processed, total) == (processed * 100) \div total

\* min(100, int((processed_messages / total_messages) * 100))
Percent(processed, total) ==
  LET p == (processed * 100) \div total IN IF p > 100 THEN 100 ELSE p

\* ------------------------------------------------------------------- state
VARIABLES
  db,            \* CANAnalyzerApp.db: NoDb or a schema handle
  log_file,      \* CANAnalyzerApp.log_file
  log_data,      \* CANAnalyzerApp.log_data: [isNone, rows], the frame table
  signals_data,  \* CANAnalyzerApp.signals_data: reference to a dict in heap
  progress_bar,  \* value of the progress bar
  log_status,    \* text of the log status label
  loader_thread, \* CANAnalyzerApp.loader_thread: index in threads, 0 = unset
  threads,       \* every LogLoaderThread created, in creation order
  plotter_thread,\* CANAnalyzerApp.plotter_thread: index in plotters, 0 = unset
  plotters,      \* every PlotterThread created, in creation order
  queue,         \* queued signal emissions waiting for the GUI thread
  heap,          \* dict objects: reference -> series map
  crashed        \* the process was aborted by Qt

vars == <<db, log_file, log_data, signals_data, progress_bar, log_status,
          loader_thread, threads, plotter_thread, plotters, queue, heap, crashed>>

NoneData == [isNone |-> TRUE, rows |-> << >>]
DataFrame(rows) == [isNone |-> FALSE, rows |-> rows]

EmptyDict == << >>

\* A queued emission of signal kind by loader thread src.
Event(src, kind, val, df, sd) == [src |-> src, kind |-> kind, val |-> val, df |-> df, sd |-> sd]

\* References that some variable holds.
Live ==
  ({signals_data}
     \cup {threads[t].sd : t \in DOMAIN threads}
     \cup {queue[i].sd : i \in DOMAIN queue}
     \cup {plotters[p].signals_data : p \in DOMAIN plotters}) \ {0}

\* A fresh reference: the least one not in use.
NewRef(h) == CHOOSE r \in 1..(Cardinality(DOMAIN h) + 1) : r \notin DOMAIN h

\* The heap without the dicts nothing refers to any more.
Collect(h, live) == [r \in (DOMAIN h) \cap live |-> h[r]]

\* LogLoaderThread(file_path, db): the thread object before start().
\* outcomes and progress record what run() has emitted, delivered that its
\* terminal outcome has reached its slot, abandoned that the caller has since
\* requested another load or cleared the log.
NewLoader(file, schema) ==
  [file |-> file, db |-> schema, pc |-> "start", pos |-> 0, messages |-> << >>,
   sd |-> 0, total |-> 0, processed |-> 0,
   outcomes |-> << >>, progress |-> << >>, delivered |-> FALSE, abandoned |-> FALSE]

Init ==
  /\ db = NoDb
  /\ log_file = NoFile
  /\ log_data = NoneData
  /\ signals_data = 1
  /\ heap = (1 :> EmptyDict)
  /\ progress_bar = 0
  /\ log_status = "Log: None"
  /\ loader_thread = 0
  /\ threads = << >>
  /\ plotter_thread = 0
  /\ plotters = << >>
  /\ queue = << >>
  /\ crashed = FALSE

\* ------------------------------------------------------ LogLoaderThread.run
\* Mutant: an unknown extension falls through to a reader.
SupportedExtensions_AnyExtension == {".asc", ".blf", ".csv", ".txt"}

SupportedExtensions == {".asc", ".blf", ".csv"}

\* except Exception as e: self.error.emit(str(e))
\* The locals of run() are gone with it.
RaiseInRun(t) ==
  /\ threads' = [threads EXCEPT ![t].pc = "done", ![t].messages = << >>, ![t].sd = 0,
                                ![t].outcomes = Append(@, "error")]
  /\ queue' = Append(queue, Event(t, "error", 0, << >>, 0))

\* run() up to the loop: the reader is chosen by extension and opens the
\* file, the locals are initialised and the lines of the file are counted.
LoaderStart(t) ==
  /\ ~crashed
  /\ threads[t].pc = "start"
  /\ LET f == FileOf(threads[t].file)
     IN IF Lower(f.ext) \notin SupportedExtensions \/ ~f.openable
        THEN /\ RaiseInRun(t)
             /\ heap' = heap
        ELSE LET r == NewRef(heap)
             IN /\ threads' = [threads EXCEPT ![t].pc = "loop", ![t].sd = r,
                                              ![t].total = f.lines]
                /\ heap' = heap @@ (r :> EmptyDict)
                /\ queue' = queue
  /\ UNCHANGED <<db, log_file, log_data, signals_data, progress_bar, log_status,
                 loader_thread, plotter_thread, plotters, crashed>>

\* The reader meets a malformed record and skips it itself.
LoaderSkip(t) ==
  /\ ~crashed
  /\ threads[t].pc = "loop"
  /\ threads[t].pos < Len(FileOf(threads[t].file).records)
  /\ FileOf(threads[t].file).records[threads[t].pos + 1].kind = "skip"
  /\ threads' = [threads EXCEPT ![t].pos = @ + 1]
  /\ UNCHANGED <<db, log_file, log_data, signals_data, progress_bar, log_status,
                 loader_thread, plotter_thread, plotters, queue, heap, crashed>>

\* The reader raises on a record: nothing in the loop catches it.
LoaderReaderRaises(t) ==
  /\ ~crashed
  /\ threads[t].pc = "loop"
  /\ threads[t].pos < Len(FileOf(threads[t].file).records)
  /\ FileOf(threads[t].file).records[threads[t].pos + 1].kind = "raise"
  /\ UNCHANGED <<db, log_file, log_data, signals_data, progress_bar, log_status,
                 loader_thread, plotter_thread, plotters, crashed>>
  /\ RaiseInRun(t)
  /\ heap' = Collect(heap, Live')

\* Mutant: each pass decodes with the schema the application holds then.
LoaderFrame_SchemaReadPerFrame(t) ==
  /\ ~crashed
  /\ threads[t].pc = "loop"
  /\ threads[t].pos < Len(FileOf(threads[t].file).records)
  /\ FileOf(threads[t].file).records[threads[t].pos + 1].kind = "frame"
  /\ UNCHANGED <<db, log_file, log_data, signals_data, progress_bar, log_status,
                 loader_thread, plotter_thread, plotters, crashed>>
  /\ LET th == threads[t]
         msg == FileOf(th.file).records[th.pos + 1]
         res == ProcessFrame(db, heap[th.sd], msg)
         n == th.processed + 1
     IN IF res.raised
        THEN /\ RaiseInRun(t)
             /\ heap' = Collect(heap, Live')
        ELSE /\ threads' = [threads EXCEPT ![t].pos = @ + 1,
                                           ![t].messages = Append(@, MsgData(msg)),
                                           ![t].processed = n,
                                           ![t].progress =
                                              IF th.total > 0
                                              THEN Append(@, Percent(n, th.total)) ELSE @]
             /\ heap' = [heap EXCEPT ![th.sd] = res.sd]
             /\ queue' = IF th.total > 0
                         THEN Append(queue, Event(t, "progress", Percent(n, th.total), << >>, 0))
                         ELSE queue

\* One pass of  for msg in reader.
LoaderFrame(t) ==
  /\ ~crashed
  /\ threads[t].pc = "loop"
  /\ threads[t].pos < Len(FileOf(threads[t].file).records)
  /\ FileOf(threads[t].file).records[threads[t].pos + 1].kind = "frame"
  /\ UNCHANGED <<db, log_file, log_data, signals_data, progress_bar, log_status,
                 loader_thread, plotter_thread, plotters, crashed>>
  /\ LET th == threads[t]
         msg == FileOf(th.file).records[th.pos + 1]
         res == ProcessFrame(th.db, heap[th.sd], msg)
         n == th.processed + 1
     IN IF res.raised
        THEN /\ RaiseInRun(t)
             /\ heap' = Collect(heap, Live')
        ELSE /\ threads' = [threads EXCEPT ![t].pos = @ + 1,
                                           ![t].messages = Append(@, MsgData(msg)),
                                           ![t].processed = n,
                                           ![t].progress =
                                              IF th.total > 0
                                              THEN Append(@, Percent(n, th.total)) ELSE @]
             /\ heap' = [heap EXCEPT ![th.sd] = res.sd]
             /\ queue' = IF th.total > 0
                         THEN Append(queue, Event(t, "progress", Percent(n, th.total), << >>, 0))
                         ELSE queue

\* Mutant: the frame table is cut at the line count of the file.
LoaderFinish_CutAtEstimate(t) ==
  /\ ~crashed
  /\ threads[t].pc = "loop"
  /\ threads[t].pos = Len(FileOf(threads[t].file).records)
  /\ UNCHANGED <<db, log_file, log_data, signals_data, progress_bar, log_status,
                 loader_thread, plotter_thread, plotters, crashed>>
  /\ LET th == threads[t]
         r == NewRef(heap)
         rows == IF th.total > 0 /\ th.total < Len(th.messages)
                 THEN SubSeq(th.messages, 1, th.total) ELSE th.messages
     IN /\ threads' = [threads EXCEPT ![t].pc = "done", ![t].messages = << >>, ![t].sd = 0,
                                      ![t].outcomes = Append(@, "finished")]
        /\ queue' = Append(queue, Event(t, "finished", 0, rows, r))
        /\ heap' = Collect(heap @@ (r :> heap[th.sd]), Live')

\* Mutant: an exception after finished.emit reaches the handler of run().
LoaderFinish_ThenError(t) ==
  /\ ~crashed
  /\ threads[t].pc = "loop"
  /\ threads[t].pos = Len(FileOf(threads[t].file).records)
  /\ UNCHANGED <<db, log_file, log_data, signals_data, progress_bar, log_status,
                 loader_thread, plotter_thread, plotters, crashed>>
  /\ LET th == threads[t]
         r == NewRef(heap)
     IN /\ threads' = [threads EXCEPT ![t].pc = "done", ![t].messages = << >>, ![t].sd = 0,
                                      ![t].outcomes = @ \o <<"finished", "error">>]
        /\ queue' = queue \o << Event(t, "finished", 0, th.messages, r),
                                Event(t, "error", 0, << >>, 0) >>
        /\ heap' = Collect(heap @@ (r :> heap[th.sd]), Live')

\* After the loop: the frame table and a new dict of per-key tables are
\* built and emitted with finished.
LoaderFinish(t) ==
  /\ ~crashed
  /\ threads[t].pc = "loop"
  /\ threads[t].pos = Len(FileOf(threads[t].file).records)
  /\ UNCHANGED <<db, log_file, log_data, signals_data, progress_bar, log_status,
                 loader_thread, plotter_thread, plotters, crashed>>
  /\ LET th == threads[t]
         r == NewRef(heap)
     IN /\ threads' = [threads EXCEPT ![t].pc = "done", ![t].messages = << >>, ![t].sd = 0,
                                      ![t].outcomes = Append(@, "finished")]
        /\ queue' = Append(queue, Event(t, "finished", 0, th.messages, r))
        /\ heap' = Collect(heap @@ (r :> heap[th.sd]), Live')

\* ------------------------------------------------------------ PlotterThread
\* Numbers that normalisation and the mean produce are fractions <<n, d>>,
\* d > 0, in lowest terms.
RECURSIVE Gcd(_, _)
Gcd(a, b) == IF b = 0 THEN a ELSE Gcd(b, a % b)

Abs(n) == IF n < 0 THEN -n ELSE n

Frac(n, d) ==
  LET g == Gcd(Abs(n), d) IN <<n \div g, d \div g>>

FracOfInt(n) == <<n, 1>>

FracLeq(a, b) == a[1] * b[2] <= b[1] * a[2]

FracAdd(a, b) == Frac(a[1] * b[2] + b[1] * a[2], a[2] * b[2])

\* np.min, np.max, np.mean of a non-empty array.
NpMin(values) ==
  values[CHOOSE i \in DOMAIN values : \A j \in DOMAIN values : FracLeq(values[i], values[j])]

NpMax(values) ==
  values[CHOOSE i \in DOMAIN values : \A j \in DOMAIN values : FracLeq(values[j], values[i])]

RECURSIVE FracSum(_)
FracSum(values) ==
  IF values = << >> THEN FracOfInt(0) ELSE FracAdd(Head(values), FracSum(Tail(values)))

NpMean(values) ==
  LET total == FracSum(values) IN Frac(total[1], total[2] * Len(values))

\* A selected item of the signal list: the key, with or without the
\* display prefix "[PDU] ".
Item(prefix, key) == [prefix |-> prefix, key |-> key]

\* Mutant: the display prefix stays in the key that is looked up.
CleanSignal_PrefixKept(item) ==
  IF item.prefix THEN <<"[PDU] ", item.key[1], item.key[2]>> ELSE item.key

\* signal.replace('[PDU] ', '')
CleanSignal(item) == item.key

NoRange == [isNone |-> TRUE, start |-> 0, end |-> 0]
Range(start, end) == [isNone |-> FALSE, start |-> start, end |-> end]

\* data['timestamp'].values
Timestamps(series) == [i \in DOMAIN series |-> series[i][1]]

\* Mutant: the end of the window is exclusive.
FilterRows_EndExclusive(series, start, end) ==
  LET InRange(sample) == sample[1] >= start /\ sample[1] < end
  IN SelectSeq(series, InRange)

\* data[(data['timestamp'] >= start_time) & (data['timestamp'] <= end_time)]
FilterRows(series, start, end) ==
  LET InRange(sample) == sample[1] >= start /\ sample[1] <= end
  IN SelectSeq(series, InRange)

\* all_timestamps over the signals that are keys of store.
RECURSIVE AllTimestamps(_, _)
AllTimestamps(store, signals) ==
  IF signals = << >> THEN << >>
  ELSE (IF CleanSignal(Head(signals)) \in DOMAIN store
        THEN Timestamps(store[CleanSignal(Head(signals))]) ELSE << >>)
         \o AllTimestamps(store, Tail(signals))

\* Mutant: the first timestamp is taken for the least, as if series were sorted.
MinOf_First(seq) == seq[1]

MinOf(seq) == seq[CHOOSE i \in DOMAIN seq : \A j \in DOMAIN seq : seq[i] <= seq[j]]
MaxOf(seq) == seq[CHOOSE i \in DOMAIN seq : \A j \in DOMAIN seq : seq[i] >= seq[j]]

\* Mutant: values that are all equal are rescaled too, to 0.
Normalized_ConstantToZero(values, normalize) ==
  IF normalize /\ Len(values) > 0
  THEN [i \in DOMAIN values |->
          IF MaxOf(values) > MinOf(values)
          THEN Frac(values[i] - MinOf(values), MaxOf(values) - MinOf(values))
          ELSE FracOfInt(0)]
  ELSE [i \in DOMAIN values |-> FracOfInt(values[i])]

\* values of one signal after the normalize step.
Normalized(values, normalize) ==
  LET raw == [i \in DOMAIN values |-> FracOfInt(values[i])]
  IN IF normalize /\ Len(values) > 0 /\ MaxOf(values) > MinOf(values)
     THEN [i \in DOMAIN values |->
             Frac(values[i] - MinOf(values), MaxOf(values) - MinOf(values))]
     ELSE raw

\* Mutant: stats are taken over the values before the normalize step.
PlotEntry_StatsBeforeNormalize(filtered, normalize) ==
  LET raw == Normalized([i \in DOMAIN filtered |-> filtered[i][2]], FALSE)
      values == Normalized([i \in DOMAIN filtered |-> filtered[i][2]], normalize)
  IN [timestamps |-> Timestamps(filtered),
      values |-> values,
      stats |-> [min |-> NpMin(raw), max |-> NpMax(raw), mean |-> NpMean(raw)]]

\* plot_data[clean_signal] for the rows that passed the filter.
PlotEntry(filtered, normalize) ==
  LET values == Normalized([i \in DOMAIN filtered |-> filtered[i][2]], normalize)
  IN [timestamps |-> Timestamps(filtered),
      values |-> values,
      stats |-> [min |-> NpMin(values), max |-> NpMax(values), mean |-> NpMean(values)]]

\* PlotterThread(signals_data, selected_signals, time_range, normalize, ...)
\* snapshot records the dict as it was when the thread was created.
NewPlotter(ref, store, signals, range, normalize) ==
  [signals_data |-> ref, selected_signals |-> signals, time_range |-> range,
   normalize |-> normalize, pc |-> "window", idx |-> 1, start_time |-> 0, end_time |-> 0,
   plot_data |-> << >>, outcome |-> "none", snapshot |-> store]

\* except Exception as e: self.error.emit(str(e))
PlotterRaises(p) ==
  plotters' = [plotters EXCEPT ![p].pc = "done", ![p].outcome = "error", ![p].plot_data = << >>,
                               ![p].signals_data = 0, ![p].snapshot = << >>]

\* run(), the time window: the given one, or the range of the timestamps of
\* the selected signals; ValueError when there are none.
PlotterWindow(p) ==
  /\ ~crashed
  /\ plotters[p].pc = "window"
  /\ UNCHANGED <<db, log_file, log_data, signals_data, progress_bar, log_status,
                 loader_thread, threads, plotter_thread, queue, crashed>>
  /\ LET pl == plotters[p]
         all == AllTimestamps(heap[pl.signals_data], pl.selected_signals)
     IN IF pl.time_range.isNone
        THEN IF all = << >>
             THEN PlotterRaises(p)
             ELSE plotters' = [plotters EXCEPT ![p].pc = "filter",
                                               ![p].start_time = MinOf(all),
                                               ![p].end_time = MaxOf(all)]
        ELSE plotters' = [plotters EXCEPT ![p].pc = "filter",
                                          ![p].start_time = pl.time_range.start,
                                          ![p].end_time = pl.time_range.end]
  /\ heap' = Collect(heap, Live')

\* run(), one pass of  for signal in self.selected_signals.
PlotterSignal(p) ==
  /\ ~crashed
  /\ plotters[p].pc = "filter"
  /\ plotters[p].idx <= Len(plotters[p].selected_signals)
  /\ LET pl == plotters[p]
         clean == CleanSignal(pl.selected_signals[pl.idx])
         store == heap[pl.signals_data]
     IN IF clean \notin DOMAIN store
        THEN plotters' = [plotters EXCEPT ![p].idx = @ + 1]
        ELSE LET filtered == FilterRows(store[clean], pl.start_time, pl.end_time)
             IN IF filtered = << >>
                THEN plotters' = [plotters EXCEPT ![p].idx = @ + 1]
                ELSE plotters' = [plotters EXCEPT
                                    ![p].idx = @ + 1,
                                    ![p].plot_data = (clean :> PlotEntry(filtered, pl.normalize)) @@ @]
  /\ UNCHANGED <<db, log_file, log_data, signals_data, progress_bar, log_status,
                 loader_thread, threads, plotter_thread, queue, heap, crashed>>

\* Mutant: an empty plot_data is emitted with finished.
PlotterFinish_EmitsEmpty(p) ==
  /\ ~crashed
  /\ plotters[p].pc = "filter"
  /\ plotters[p].idx > Len(plotters[p].selected_signals)
  /\ UNCHANGED <<db, log_file, log_data, signals_data, progress_bar, log_status,
                 loader_thread, threads, plotter_thread, queue, crashed>>
  /\ plotters' = [plotters EXCEPT ![p].pc = "done", ![p].outcome = "finished",
                                  ![p].signals_data = 0, ![p].snapshot = << >>]
  /\ heap' = Collect(heap, Live')

\* run(), after the loop: ValueError when plot_data is empty, else finished.
PlotterFinish(p) ==
  /\ ~crashed
  /\ plotters[p].pc = "filter"
  /\ plotters[p].idx > Len(plotters[p].selected_signals)
  /\ UNCHANGED <<db, log_file, log_data, signals_data, progress_bar, log_status,
                 loader_thread, threads, plotter_thread, queue, crashed>>
  /\ IF plotters[p].plot_data = << >>
     THEN PlotterRaises(p)
     ELSE plotters' = [plotters EXCEPT ![p].pc = "done", ![p].outcome = "finished",
                                       ![p].signals_data = 0, ![p].snapshot = << >>]
  /\ heap' = Collect(heap, Live')

\* ----------------------------------------------------------- CANAnalyzerApp
\* The files a schema load can name: one that parses, one that does not.
DbcFiles == {"body.dbc", "broken.dbc"}

\* cantools.database.load_file(file_path): the database, or NoDb when the
\* parser raises.
LoadDbc(path) == IF path = "body.dbc" THEN "DB1" ELSE NoDb

\* The runs still in flight are marked as abandoned by the caller.
Abandon(ths) ==
  [t \in DOMAIN ths |-> IF ths[t].delivered THEN ths[t] ELSE [ths[t] EXCEPT !.abandoned = TRUE]]

\* load_log_file with a file path: the labels and the progress bar are reset
\* and a LogLoaderThread is created with the schema held now, connected and
\* started.  The thread object held before loses its reference.
StartLoad(file, schema) ==
  /\ Len(threads) < MaxLoads
  /\ log_file' = file
  /\ log_status' = "Log: Loading..."
  /\ progress_bar' = 0
  /\ threads' = Append(Abandon(threads), NewLoader(file, schema))
  /\ loader_thread' = Len(threads) + 1

load_log_file(file) ==
  /\ ~crashed
  /\ StartLoad(file, db)
  /\ UNCHANGED <<db, log_data, signals_data, plotter_thread, plotters, queue, heap, crashed>>

\* Mutant: the schema held is dropped when the file does not parse.
load_dbc_file_DropsSchemaOnFailure(path) ==
  /\ ~crashed
  /\ db' = LoadDbc(path)
  /\ UNCHANGED <<log_file, log_data, signals_data, progress_bar, log_status, loader_thread,
                 threads, plotter_thread, plotters, queue, heap, crashed>>

\* load_dbc_file: self.db is replaced when the file parses, and only then.
load_dbc_file(path) ==
  /\ ~crashed
  /\ db' = IF LoadDbc(path) # NoDb THEN LoadDbc(path) ELSE db
  /\ UNCHANGED <<log_file, log_data, signals_data, progress_bar, log_status, loader_thread,
                 threads, plotter_thread, plotters, queue, heap, crashed>>

\* clear_dbc: the schema is dropped; with a log loaded, signals_data becomes
\* a new empty dict and the log file is loaded again (from the file dialog
\* when log_file is unset).
clear_dbc ==
  /\ ~crashed
  /\ db' = NoDb
  /\ UNCHANGED <<log_data, plotter_thread, plotters, queue, crashed>>
  /\ IF ~log_data.isNone
     THEN /\ \E file \in (IF log_file = NoFile THEN AppFiles ELSE {log_file}) :
                StartLoad(file, NoDb)
          /\ LET r == NewRef(heap)
             IN /\ signals_data' = r
                /\ heap' = Collect(heap @@ (r :> EmptyDict), Live')
     ELSE UNCHANGED <<log_file, log_status, progress_bar, threads, loader_thread,
                      signals_data, heap>>

\* Mutant: the published dict is emptied in place (signals_data.clear())
\* instead of being replaced by a new one.
clear_log_InPlace ==
  /\ ~crashed
  /\ log_data' = NoneData
  /\ log_file' = NoFile
  /\ log_status' = "Log: None"
  /\ threads' = Abandon(threads)
  /\ UNCHANGED <<db, progress_bar, loader_thread, plotter_thread, plotters, queue, crashed,
                 signals_data>>
  /\ heap' = [heap EXCEPT ![signals_data] = EmptyDict]

\* clear_log: the published tables are dropped.  The loader thread is not
\* touched.
clear_log ==
  /\ ~crashed
  /\ log_data' = NoneData
  /\ log_file' = NoFile
  /\ log_status' = "Log: None"
  /\ threads' = Abandon(threads)
  /\ UNCHANGED <<db, progress_bar, loader_thread, plotter_thread, plotters, queue, crashed>>
  /\ LET r == NewRef(heap)
     IN /\ signals_data' = r
        /\ heap' = Collect(heap @@ (r :> EmptyDict), Live')

\* dropEvent with one file: a .dbc goes to load_dbc_file, a log of a known
\* extension to load_log_file, anything else is ignored.
dropEvent(path) ==
  IF path \in DbcFiles THEN load_dbc_file(path)
  ELSE /\ Lower(FileOf(path).ext) \in SupportedExtensions
       /\ load_log_file(path)

\* valid_signals: the cleaned selected signals that are keys of the store.
RECURSIVE ValidSignals(_, _)
ValidSignals(store, selected) ==
  IF selected = << >> THEN << >>
  ELSE (IF CleanSignal(Head(selected)) \in DOMAIN store
        THEN <<Item(FALSE, CleanSignal(Head(selected)))>> ELSE << >>)
         \o ValidSignals(store, Tail(selected))

\* has_data: some valid signal has a row inside the custom window.
HasData(store, valid, start, end) ==
  \E i \in DOMAIN valid : FilterRows(store[CleanSignal(valid[i])], start, end) # << >>

\* Mutant: a custom window without data is handed on as it is.
PlotRange_NoFallback(store, valid, custom) == custom

\* time_range as plot_signals hands it to the thread: None for "Full", the
\* custom window when some valid signal has data in it, else the range of
\* the timestamps of the valid signals.
PlotRange(store, valid, custom) ==
  IF custom.isNone THEN NoRange
  ELSE IF HasData(store, valid, custom.start, custom.end) THEN custom
  ELSE LET all == AllTimestamps(store, valid) IN Range(MinOf(all), MaxOf(all))

\* plot_signals on the paths that start a PlotterThread: a log is loaded,
\* some selected signal is a key of signals_data, a custom window has
\* start < end and, when it holds no data, the valid signals have samples.
\* The thread is given the dict signals_data refers to, not a copy.
plot_signals(selected, custom, normalize) ==
  /\ ~crashed
  /\ Len(plotters) < MaxPlots
  /\ ~log_data.isNone
  /\ LET store == heap[signals_data]
         valid == ValidSignals(store, selected)
     IN /\ valid # << >>
        /\ ~custom.isNone => custom.start < custom.end
        /\ (~custom.isNone /\ ~HasData(store, valid, custom.start, custom.end))
             => AllTimestamps(store, valid) # << >>
        /\ plotters' = Append(plotters,
                              NewPlotter(signals_data, store, valid,
                                         PlotRange(store, valid, custom), normalize))
        /\ plotter_thread' = Len(plotters) + 1
  /\ UNCHANGED <<db, log_file, log_data, signals_data, progress_bar, log_status,
                 loader_thread, threads, queue, heap, crashed>>

\* The slots of the loader's signals, run for the oldest queued emission.
\* progress -> progress_bar.setValue
on_progress ==
  /\ ~crashed
  /\ queue # << >>
  /\ Head(queue).kind = "progress"
  /\ progress_bar' = Head(queue).val
  /\ queue' = Tail(queue)
  /\ UNCHANGED <<db, log_file, log_data, signals_data, log_status, loader_thread, threads,
                 plotter_thread, plotters, heap, crashed>>

\* finished -> on_log_loaded(df, signals_data)
on_log_loaded ==
  /\ ~crashed
  /\ queue # << >>
  /\ Head(queue).kind = "finished"
  /\ log_data' = DataFrame(Head(queue).df)
  /\ signals_data' = Head(queue).sd
  /\ progress_bar' = 100
  /\ log_status' = "Log: msgs"
  /\ queue' = Tail(queue)
  /\ threads' = [threads EXCEPT ![Head(queue).src].delivered = TRUE]
  /\ UNCHANGED <<db, log_file, loader_thread, plotter_thread, plotters, crashed>>
  /\ heap' = Collect(heap, Live')

\* Mutant: the slot of error drops the published frame table.
on_log_error_DropsFrameTable ==
  /\ ~crashed
  /\ queue # << >>
  /\ Head(queue).kind = "error"
  /\ log_status' = "Log: None"
  /\ log_data' = NoneData
  /\ queue' = Tail(queue)
  /\ threads' = [threads EXCEPT ![Head(queue).src].delivered = TRUE]
  /\ UNCHANGED <<db, log_file, signals_data, progress_bar, loader_thread,
                 plotter_thread, plotters, heap, crashed>>

\* error -> on_log_error(error)
on_log_error ==
  /\ ~crashed
  /\ queue # << >>
  /\ Head(queue).kind = "error"
  /\ log_status' = "Log: None"
  /\ queue' = Tail(queue)
  /\ threads' = [threads EXCEPT ![Head(queue).src].delivered = TRUE]
  /\ UNCHANGED <<db, log_file, log_data, signals_data, progress_bar, loader_thread,
                 plotter_thread, plotters, heap, crashed>>

\* A QThread whose Python object lost its last reference is destroyed; Qt
\* aborts the process when the thread is still running.  run() holds a
\* reference while it executes, so this can happen before it is entered and
\* after it has returned.
DestroyedWhileRunning ==
  /\ ~crashed
  /\ \/ \E t \in DOMAIN threads :
          /\ t # loader_thread
          /\ \/ threads[t].pc = "start"
             \/ threads[t].pc = "done" /\ ~threads[t].delivered
     \/ \E p \in DOMAIN plotters :
          /\ p # plotter_thread
          /\ plotters[p].pc = "window"
  /\ crashed' = TRUE
  /\ UNCHANGED <<db, log_file, log_data, signals_data, progress_bar, log_status,
                 loader_thread, threads, plotter_thread, plotters, queue, heap>>

Next ==
  \/ \E t \in DOMAIN threads : LoaderStart(t)
  \/ \E t \in DOMAIN threads : LoaderSkip(t)
  \/ \E t \in DOMAIN threads : LoaderReaderRaises(t)
  \/ \E t \in DOMAIN threads : LoaderFrame(t)
  \/ \E t \in DOMAIN threads : LoaderFinish(t)
  \/ DestroyedWhileRunning
  \/ \E file \in AppFiles : load_log_file(file)
  \/ \E path \in DbcFiles : load_dbc_file(path)
  \/ \E path \in AppFiles \cup DbcFiles : dropEvent(path)
  \/ clear_dbc
  \/ clear_log
  \/ on_progress
  \/ on_log_loaded
  \/ on_log_error

\* The application: any handler at any time, the workers in between.
Spec == Init /\ [][Next]_vars

\* One ingestion on its own: load_log_file was requested once, for any of
\* the files, with or without a schema, and nothing else is requested.
InitRun ==
  \E file \in FileNames, schema \in {NoDb} \cup DbNames :
    /\ db = schema
    /\ log_file = file
    /\ log_data = NoneData
    /\ signals_data = 1
    /\ heap = (1 :> EmptyDict)
    /\ progress_bar = 0
    /\ log_status = "Log: Loading..."
    /\ loader_thread = 1
    /\ threads = << NewLoader(file, schema) >>
    /\ plotter_thread = 0
    /\ plotters = << >>
    /\ queue = << >>
    /\ crashed = FALSE

NextRun ==
  \/ LoaderStart(1)
  \/ LoaderSkip(1)
  \/ LoaderReaderRaises(1)
  \/ LoaderFrame(1)
  \/ LoaderFinish(1)
  \/ on_progress
  \/ on_log_loaded
  \/ on_log_error

SpecRun == InitRun /\ [][NextRun]_vars

\* The selections, windows and files of the plotting scenario.
PlotSelections ==
  { << Item(FALSE, ByteKey(256, 0)), Item(FALSE, SignalKey("Engine", "RPM")) >>,
    << Item(TRUE, SignalKey("Engine", "Load")), Item(FALSE, ByteKey(256, 1)),
       Item(FALSE, SignalKey("Body", "Temp")) >> }

PlotWindows == {NoRange, Range(1, 2), Range(5, 9)}

PlotFiles == {"plot.blf"}

NextPlot ==
  \/ \E t \in DOMAIN threads : LoaderStart(t)
  \/ \E t \in DOMAIN threads : LoaderFrame(t)
  \/ \E t \in DOMAIN threads : LoaderFinish(t)
  \/ DestroyedWhileRunning
  \/ \E file \in PlotFiles : load_log_file(file)
  \/ \E path \in DbcFiles : load_dbc_file(path)
  \/ clear_dbc
  \/ clear_log
  \/ on_log_loaded
  \/ \E selected \in PlotSelections, custom \in PlotWindows, normalize \in BOOLEAN :
       plot_signals(selected, custom, normalize)
  \/ \E p \in DOMAIN plotters : PlotterWindow(p)
  \/ \E p \in DOMAIN plotters : PlotterSignal(p)
  \/ \E p \in DOMAIN plotters : PlotterFinish(p)

\* The application with plotting: the loads, the schema changes and the
\* clears go on while PlotterThreads run.
SpecPlot == Init /\ [][NextPlot]_vars

\* The dict a finished run over the first n records emits: the loop of run()
\* from its first pass to its n-th.
RECURSIVE LoadedStore(_, _, _)
LoadedStore(schema, records, n) ==
  IF n = 0 THEN EmptyDict
  ELSE LET sd == LoadedStore(schema, records, n - 1)
       IN IF records[n].kind = "frame" THEN ProcessFrame(schema, sd, records[n]).sd ELSE sd

\* The frame table of the same run.
RECURSIVE LoadedFrames(_, _)
LoadedFrames(records, n) ==
  IF n = 0 THEN << >>
  ELSE LoadedFrames(records, n - 1)
         \o (IF records[n].kind = "frame" THEN <<MsgData(records[n])>> ELSE << >>)

\* PlotterThread.run on its own: the arguments of the constructor are drawn
\* from the stores that loads of PrepFiles publish, with or without a
\* schema, and from PrepSelections, PrepWindows and both values of normalize.
PrepFiles == {"dup.csv", "plot.blf", "diag.asc", "drive.asc", "empty.blf"}

PrepSelections ==
  { << Item(FALSE, ByteKey(256, 0)), Item(TRUE, ByteKey(256, 1)) >>,
    << Item(TRUE, SignalKey("Engine", "RPM")), Item(FALSE, SignalKey("Engine", "Nope")),
       Item(FALSE, SignalKey("Engine", "Load")) >>,
    << Item(FALSE, SignalKey("Diag", "Code")), Item(FALSE, SignalKey("Diag", "Volt")) >>,
    << Item(TRUE, SignalKey("Body", "Lamp")), Item(FALSE, SignalKey("Nope", "X")),
       Item(FALSE, SignalKey("Engine", "RPM")) >>,
    << Item(FALSE, SignalKey("Diag", "Code")) >>,
    << Item(FALSE, SignalKey("Nope", "X")) >> }

PrepWindows == {NoRange, Range(1, 2), Range(5, 9), Range(0, 0)}

InitPrepare ==
  \E file \in PrepFiles, schema \in {NoDb} \cup DbNames, selected \in PrepSelections,
     range \in PrepWindows, normalize \in BOOLEAN :
    LET records == FileOf(file).records
        store == LoadedStore(schema, records, Len(records))
    IN /\ db = schema
       /\ log_file = file
       /\ log_data = DataFrame(LoadedFrames(records, Len(records)))
       /\ signals_data = 1
       /\ heap = (1 :> store)
       /\ progress_bar = 100
       /\ log_status = "Log: msgs"
       /\ loader_thread = 0
       /\ threads = << >>
       /\ plotter_thread = 1
       /\ plotters = << NewPlotter(1, store, selected, range, normalize) >>
       /\ queue = << >>
       /\ crashed = FALSE

NextPrepare ==
  \/ PlotterWindow(1)
  \/ PlotterSignal(1)
  \/ PlotterFinish(1)

SpecPrepare == InitPrepare /\ [][NextPrepare]_vars

\* One load followed by plot requests: the run of InitRun, then plot_signals
\* for any of PrepSelections and RequestWindows once the log is published,
\* and the PlotterThreads it starts.
RequestWindows == {NoRange, Range(1, 2), Range(5, 9), Range(3, 3)}

NextRequest ==
  \/ LoaderStart(1)
  \/ LoaderSkip(1)
  \/ LoaderReaderRaises(1)
  \/ LoaderFrame(1)
  \/ LoaderFinish(1)
  \/ on_progress
  \/ on_log_loaded
  \/ on_log_error
  \/ \E selected \in PrepSelections, custom \in RequestWindows, normalize \in BOOLEAN :
       plot_signals(selected, custom, normalize)
  \/ \E p \in DOMAIN plotters : PlotterWindow(p)
  \/ \E p \in DOMAIN plotters : PlotterSignal(p)
  \/ \E p \in DOMAIN plotters : PlotterFinish(p)

SpecRequest == InitRun /\ [][NextRequest]_vars

\* ================================================================ properties
Threads == DOMAIN threads

\* The three formats the specification names.
RecognisedFormats == {".asc", ".blf", ".csv"}

RecordsOf(t) == FileOf(threads[t].file).records

\* The rows the frame table has once the first n records are consumed.
RECURSIVE FrameRows(_, _)
FrameRows(records, n) ==
  IF n = 0 THEN << >>
  ELSE FrameRows(records, n - 1)
         \o (IF records[n].kind = "frame" THEN <<MsgData(records[n])>> ELSE << >>)

\* A file whose extension is known, that opens, and on none of whose records
\* the reader raises.
Readable(file) ==
  /\ Lower(FileOf(file).ext) \in RecognisedFormats
  /\ FileOf(file).openable
  /\ \A i \in DOMAIN FileOf(file).records : FileOf(file).records[i].kind # "raise"

FinishedEvents == {i \in DOMAIN queue : queue[i].kind = "finished"}

\* The dicts the application and its plotters can reach.
CallerRefs == {signals_data} \cup {plotters[p].signals_data : p \in DOMAIN plotters}

\* C1: a run of LogLoaderThread.run emits at most one terminal outcome and,
\* once it has returned, exactly one, finished or error; finished is emitted
\* only when every record of the source is consumed and carries one row per
\* frame; the dict the run fills is not reachable by the caller, only
\* finished emissions carry tables, and the application publishes a frame
\* table only from a run that emitted finished.
C1_OneTerminalOutcome ==
  /\ \A t \in Threads :
       /\ Len(threads[t].outcomes) <= 1
       /\ threads[t].pc = "done" <=> Len(threads[t].outcomes) = 1
       /\ threads[t].delivered => threads[t].pc = "done"
       /\ threads[t].outcomes = <<"finished">> => threads[t].pos = Len(RecordsOf(t))
       /\ threads[t].sd # 0 => threads[t].sd \notin CallerRefs
       /\ Cardinality({i \in DOMAIN queue : queue[i].src = t
                                            /\ queue[i].kind \in {"finished", "error"}})
            = (IF Len(threads[t].outcomes) = 1 /\ ~threads[t].delivered THEN 1 ELSE 0)
  /\ \A i \in DOMAIN queue :
       IF queue[i].kind = "finished"
       THEN /\ threads[queue[i].src].outcomes = <<"finished">>
            /\ queue[i].df = FrameRows(RecordsOf(queue[i].src), Len(RecordsOf(queue[i].src)))
       ELSE queue[i].df = << >> /\ queue[i].sd = 0
  /\ ~log_data.isNone =>
       \E t \in Threads : threads[t].outcomes = <<"finished">> /\ threads[t].delivered
  /\ heap[signals_data] # EmptyDict =>
       \E t \in Threads : threads[t].outcomes = <<"finished">> /\ threads[t].delivered

\* C1 witness: a run of three frames has delivered finished and its tables
\* are published.
C1_Witness ==
  \E t \in Threads :
    /\ threads[t].outcomes = <<"finished">>
    /\ threads[t].delivered
    /\ Len(log_data.rows) = 3
    /\ heap[signals_data] # EmptyDict

\* C6: a run over a file whose extension is none of .asc, .blf, .csv reads
\* no frame and emits no progress and no finished; when it has returned it
\* has emitted error.
C6_UnsupportedFormatFails ==
  \A t \in Threads :
    Lower(FileOf(threads[t].file).ext) \notin RecognisedFormats =>
      /\ threads[t].pc \in {"start", "done"}
      /\ threads[t].pos = 0
      /\ threads[t].processed = 0
      /\ threads[t].progress = << >>
      /\ threads[t].pc = "done" => threads[t].outcomes = <<"error">>
      /\ \A i \in DOMAIN queue : queue[i].src = t => queue[i].kind = "error"

\* C6 witness: the run over notes.txt has ended and its error is delivered.
C6_Witness ==
  \E t \in Threads :
    /\ threads[t].file = "notes.txt"
    /\ threads[t].outcomes = <<"error">>
    /\ threads[t].delivered

\* The number of samples in a series map.
RECURSIVE SampleCount(_, _)
SampleCount(sd, keys) ==
  IF keys = {} THEN 0
  ELSE LET k == CHOOSE x \in keys : TRUE
       IN Len(sd[k]) + SampleCount(sd, keys \ {k})

RECURSIVE DeclaredBytes(_, _)
DeclaredBytes(records, n) ==
  IF n = 0 THEN 0
  ELSE DeclaredBytes(records, n - 1) + (IF records[n].kind = "frame" THEN records[n].dlc ELSE 0)

\* C7 (as claimed): schema-less, every frame the reader yields, whatever its
\* dlc and payload length, adds one sample with its timestamp to each series
\* ID_0x<id>.Byte<i>, i < dlc, and to no other: no frame ends the run.
C7_OneSamplePerDeclaredByte ==
  \A t \in Threads :
    threads[t].db = NoDb =>
      /\ threads[t].pc = "loop" =>
           LET sd == heap[threads[t].sd]
           IN /\ \A n \in 1..threads[t].pos :
                   RecordsOf(t)[n].kind = "frame" =>
                     \A i \in 0..(RecordsOf(t)[n].dlc - 1) :
                       /\ ByteKey(RecordsOf(t)[n].arbitration_id, i) \in DOMAIN sd
                       /\ \E j \in DOMAIN sd[ByteKey(RecordsOf(t)[n].arbitration_id, i)] :
                            sd[ByteKey(RecordsOf(t)[n].arbitration_id, i)][j][1]
                              = RecordsOf(t)[n].timestamp
              /\ SampleCount(sd, DOMAIN sd) = DeclaredBytes(RecordsOf(t), threads[t].pos)
      /\ (threads[t].pc = "done" /\ Readable(threads[t].file)) =>
           threads[t].outcomes = <<"finished">>

\* A step of thread t that consumes the frame at its reader position.
ConsumesFrame(t) ==
  /\ t \in Threads
  /\ threads[t].pc = "loop"
  /\ threads[t].pos < Len(RecordsOf(t))
  /\ RecordsOf(t)[threads[t].pos + 1].kind = "frame"
  /\ threads'[t] # threads[t]

NextFrame(t) == RecordsOf(t)[threads[t].pos + 1]

\* C8: in schema mode a frame whose identifier the schema does not know adds
\* no sample to any series, is appended to the frame table, and leaves the
\* run in its loop with no terminal outcome.
C8_UnknownIdentifierIsRecordedRaw ==
  [][\A t \in Threads :
       (/\ ConsumesFrame(t)
        /\ threads[t].db # NoDb
        /\ NextFrame(t).arbitration_id \notin DOMAIN MessagesOf(threads[t].db))
       => /\ threads'[t].pc = "loop"
          /\ threads'[t].outcomes = << >>
          /\ threads'[t].pos = threads[t].pos + 1
          /\ threads'[t].messages = Append(threads[t].messages, MsgData(NextFrame(t)))
          /\ heap'[threads'[t].sd] = heap[threads[t].sd]]_vars

\* C8 witness: with a schema, drive.asc (its second frame has the unknown
\* identifier 0x300) has been read to its end and all three frames are in
\* the emitted frame table, with the samples of the third.
C8_Witness ==
  \E i \in DOMAIN queue :
    /\ queue[i].kind = "finished"
    /\ threads[queue[i].src].file = "drive.asc"
    /\ threads[queue[i].src].db = "DB1"
    /\ Len(queue[i].df) = 3
    /\ SignalKey("Body", "Lamp") \in DOMAIN heap[queue[i].sd]

\* C9 (as claimed): in schema mode, a frame of a known message gives a sample
\* to every unconditional signal of the message that lies inside the payload,
\* whatever happens to the other signals of the message.
C9_OtherSignalsStillDecoded ==
  [][\A t \in Threads :
       (/\ ConsumesFrame(t)
        /\ threads[t].db # NoDb
        /\ NextFrame(t).arbitration_id \in DOMAIN MessagesOf(threads[t].db))
       => LET message == MessagesOf(threads[t].db)[NextFrame(t).arbitration_id]
          IN \A i \in DOMAIN message.signals :
               (/\ message.signals[i].multiplexer_ids = {}
                /\ ~Omitted(message.signals[i], message, NextFrame(t).data))
               => /\ threads'[t].sd # 0
                  /\ SignalKey(message.name, message.signals[i].name)
                       \in DOMAIN heap'[threads'[t].sd]
                  /\ \E j \in DOMAIN heap'[threads'[t].sd][SignalKey(message.name,
                                                                     message.signals[i].name)] :
                       heap'[threads'[t].sd][SignalKey(message.name, message.signals[i].name)][j][1]
                         = NextFrame(t).timestamp]_vars

\* C10 (as claimed): a run over a log that opens, has a known extension and
\* whose frames carry their declared payload ends with finished, and its
\* frame table holds every well-formed frame of the log, also when a record
\* of the log is malformed.
C10_MalformedRecordIsSkipped ==
  \A t \in Threads :
    (/\ threads[t].pc = "done"
     /\ Lower(FileOf(threads[t].file).ext) \in RecognisedFormats
     /\ FileOf(threads[t].file).openable
     /\ \A n \in DOMAIN RecordsOf(t) : Len(RecordsOf(t)[n].data) >= RecordsOf(t)[n].dlc)
    => /\ threads[t].outcomes = <<"finished">>
       /\ \A i \in DOMAIN queue :
            (queue[i].src = t /\ queue[i].kind = "finished")
              => queue[i].df = FrameRows(RecordsOf(t), Len(RecordsOf(t)))

\* The ingestions that have not yet delivered their terminal outcome.
InFlight == {t \in Threads : ~threads[t].delivered}

\* C2 (as claimed): at most one ingestion is in flight: a load requested
\* before the previous LogLoaderThread has delivered its terminal outcome
\* starts no second thread.
C2_AtMostOneIngestionInFlight == Cardinality(InFlight) <= 1

\* C3 (as claimed): the slot of an emission of an abandoned run (a later
\* load_log_file or clear_log has superseded it) changes neither the
\* published frame table, nor the published series map, nor the progress
\* value.
C3_AbandonedRunIsDiscarded ==
  [][(/\ queue # << >>
      /\ queue' = Tail(queue)
      /\ threads[Head(queue).src].abandoned)
     => /\ log_data' = log_data
        /\ signals_data' = signals_data
        /\ progress_bar' = progress_bar]_vars

\* C4 (as claimed): a step that changes the schema while a log is published
\* invalidates the published series map and starts the decode of the
\* published log against the new schema.
C4_SchemaChangeRedecodes ==
  [][(~log_data.isNone /\ db' # db)
     => /\ heap'[signals_data'] = EmptyDict
        /\ \E t \in DOMAIN threads' :
             /\ t \notin DOMAIN threads
             /\ threads'[t].db = db'
             /\ threads'[t].file = log_file]_vars

\* C5: while a PlotterThread runs, the dict it holds is the dict that was
\* published when plot_signals created it, with the series it had then:
\* no handler and no loader thread changes it in place.
C5_PlottedStoreIsNotMutated ==
  \A p \in DOMAIN plotters :
    plotters[p].pc # "done" =>
      /\ plotters[p].signals_data \in DOMAIN heap
      /\ heap[plotters[p].signals_data] = plotters[p].snapshot
      /\ \A t \in Threads : threads[t].sd # plotters[p].signals_data

\* C5 witness: a PlotterThread is in its loop over a non-empty store that
\* the application has since replaced, while a loader thread fills its own.
C5_Witness ==
  \E p \in DOMAIN plotters, t \in Threads :
    /\ plotters[p].pc = "filter"
    /\ plotters[p].signals_data # signals_data
    /\ heap[plotters[p].signals_data] # EmptyDict
    /\ threads[t].pc = "loop"
    /\ threads[t].pos > 0

C12_SampleTimesAreFrameTimes ==
  \A i \in FinishedEvents :
    \A key \in DOMAIN heap[queue[i].sd] :
      \A j \in DOMAIN heap[queue[i].sd][key] :
        \E n \in DOMAIN queue[i].df :
          queue[i].df[n].timestamp = heap[queue[i].sd][key][j][1]

\* C12 witness: finished carries a series with samples of two frames of
\* different timestamps, the later frame first.
C12_Witness ==
  \E i \in FinishedEvents :
    \E key \in DOMAIN heap[queue[i].sd] :
      /\ Len(heap[queue[i].sd][key]) = 2
      /\ heap[queue[i].sd][key][1][1] > heap[queue[i].sd][key][2][1]
      /\ Len(queue[i].df) = 2

\* Number of samples of key in a series map, 0 when the key is absent.
Count(sd, key) == IF key \in DOMAIN sd THEN Len(sd[key]) ELSE 0

\* The value of the multiplexer signal of message in a payload that holds it.
MultiplexerValue(message, data) ==
  LET i == CHOOSE n \in DOMAIN message.signals : message.signals[n].is_multiplexer
      sig == message.signals[i]
  IN RawValue(data, sig.start, sig.size) * sig.scale + sig.offset

\* The keys the specification gives a sample for a frame of message: the
\* unconditional signals and the signals gated on the multiplexer value.
ExpectedKeys(message, data) ==
  LET multiplexed == \E n \in DOMAIN message.signals : message.signals[n].is_multiplexer
  IN { SignalKey(message.name, message.signals[n].name) :
         n \in { x \in DOMAIN message.signals :
                   \/ message.signals[x].multiplexer_ids = {}
                   \/ /\ multiplexed
                      /\ MultiplexerValue(message, data)
                           \in message.signals[x].multiplexer_ids } }

\* C13 (as claimed, for a frame that carries the whole message and signals
\* that decode to numbers): in schema mode a frame of a known message adds
\* exactly one sample to the series of each unconditional signal and of each
\* signal gated on the frame's multiplexer value, and none to any other.
C13_MultiplexingSelectivity ==
  [][\A t \in Threads :
       (/\ ConsumesFrame(t)
        /\ threads[t].db # NoDb
        /\ NextFrame(t).arbitration_id \in DOMAIN MessagesOf(threads[t].db)
        /\ LET message == MessagesOf(threads[t].db)[NextFrame(t).arbitration_id]
           IN /\ Len(NextFrame(t).data) >= message.length
              /\ \A n \in DOMAIN message.signals : message.signals[n].kind = "num")
       => LET message == MessagesOf(threads[t].db)[NextFrame(t).arbitration_id]
              before == heap[threads[t].sd]
          IN /\ threads'[t].sd # 0
             /\ \A key \in DOMAIN heap'[threads'[t].sd] \cup ExpectedKeys(message, NextFrame(t).data) :
                  Count(heap'[threads'[t].sd], key) - Count(before, key)
                    = (IF key \in ExpectedKeys(message, NextFrame(t).data) THEN 1 ELSE 0)]_vars

PreparedStore == heap[signals_data]

\* The selected keys of a PlotterThread, display prefix removed.
SelectedKeys(pl) == {pl.selected_signals[i].key : i \in DOMAIN pl.selected_signals}

\* The selected keys that are keys of the store.
ResolvedKeys(pl) == SelectedKeys(pl) \cap DOMAIN PreparedStore

\* The timestamps of the series of keys.
TimesOf(store, keys) == UNION {{store[k][j][1] : j \in DOMAIN store[k]} : k \in keys}

\* C15: a PlotterThread given no window that has passed the window step
\* works with [min t, max t] over the timestamps of all selected keys that
\* are in the store, whatever their order and repetitions, so every sample
\* of those series lies inside it.
C15_FullRangeWindow ==
  \A p \in DOMAIN plotters :
    (plotters[p].time_range.isNone
       /\ (plotters[p].pc = "filter" \/ plotters[p].outcome = "finished"))
    => LET times == TimesOf(PreparedStore, ResolvedKeys(plotters[p]))
       IN /\ plotters[p].start_time \in times
          /\ plotters[p].end_time \in times
          /\ \A x \in times : plotters[p].start_time <= x /\ x <= plotters[p].end_time

\* C15 witness: no window, and a selected series that starts with a
\* timestamp above the least one and holds one timestamp twice.
C15_Witness ==
  \E p \in DOMAIN plotters :
    /\ plotters[p].time_range.isNone
    /\ plotters[p].outcome = "finished"
    /\ \E key \in ResolvedKeys(plotters[p]) :
         LET series == PreparedStore[key]
         IN /\ Len(series) >= 3
            /\ series[1][1] > plotters[p].start_time
            /\ \E i, j \in DOMAIN series : i # j /\ series[i][1] = series[j][1]

\* The samples of series with start <= timestamp <= end, in their order.
RECURSIVE Within(_, _, _)
Within(series, start, end) ==
  IF series = << >> THEN << >>
  ELSE (IF start <= Head(series)[1] /\ Head(series)[1] <= end THEN <<Head(series)>> ELSE << >>)
         \o Within(Tail(series), start, end)

\* C16: for every key of the output of a PlotterThread, timestamps are those
\* of the samples of the stored series with start <= timestamp <= end, in the
\* order of the series; values has the same length and, when normalize is
\* off, holds the values of the same samples at the same positions.
C16_FilterKeepsOrderAndBounds ==
  \A p \in DOMAIN plotters :
    \A key \in DOMAIN plotters[p].plot_data :
      LET kept == Within(PreparedStore[key], plotters[p].start_time, plotters[p].end_time)
          entry == plotters[p].plot_data[key]
      IN /\ entry.timestamps = [i \in DOMAIN kept |-> kept[i][1]]
         /\ Len(entry.values) = Len(entry.timestamps)
         /\ ~plotters[p].normalize => entry.values = [i \in DOMAIN kept |-> <<kept[i][2], 1>>]

\* C16 witness: a finished output for a given window holds a series with a
\* sample on each bound, fewer samples than are stored, and timestamps that
\* are not in ascending order.
C16_Witness ==
  \E p \in DOMAIN plotters :
    /\ plotters[p].outcome = "finished"
    /\ ~plotters[p].time_range.isNone
    /\ \E key \in DOMAIN plotters[p].plot_data :
         LET ts == plotters[p].plot_data[key].timestamps
         IN /\ Len(ts) < Len(PreparedStore[key])
            /\ \E i \in DOMAIN ts : ts[i] = plotters[p].start_time
            /\ \E i \in DOMAIN ts : ts[i] = plotters[p].end_time
            /\ \E i, j \in DOMAIN ts : i < j /\ ts[i] > ts[j]

\* The keys the output of a PlotterThread has to hold: the selected keys
\* that are in the store with a sample inside the window used.
KeysWithData(pl) ==
  {key \in ResolvedKeys(pl) : Within(PreparedStore[key], pl.start_time, pl.end_time) # << >>}

\* C17: a PlotterThread that emits finished emits exactly the selected keys,
\* display prefix removed, that are in the store with at least one sample in
\* the window used; and it emits finished whenever there is such a key,
\* whatever other selected keys are absent or have no sample in the window.
C17_OutputKeys ==
  \A p \in DOMAIN plotters :
    /\ plotters[p].outcome = "finished" =>
         DOMAIN plotters[p].plot_data = KeysWithData(plotters[p])
    /\ (plotters[p].pc = "done" /\ KeysWithData(plotters[p]) # {}) =>
         plotters[p].outcome = "finished"

\* C17 witness: finished with one key, selected with the display prefix,
\* while another selected key is absent from the store and a third is in the
\* store with no sample in the window.
C17_Witness ==
  \E p \in DOMAIN plotters :
    /\ plotters[p].outcome = "finished"
    /\ Cardinality(DOMAIN plotters[p].plot_data) = 1
    /\ \E i \in DOMAIN plotters[p].selected_signals :
         /\ plotters[p].selected_signals[i].prefix
         /\ plotters[p].selected_signals[i].key \in DOMAIN plotters[p].plot_data
    /\ SelectedKeys(plotters[p]) \ DOMAIN PreparedStore # {}
    /\ ResolvedKeys(plotters[p]) \ KeysWithData(plotters[p]) # {}

\* C18: a PlotterThread whose selection holds no key of the store never
\* emits finished, with or without a window, and has emitted error when
\* run() has returned, with no output.
C18_NoMatchFails ==
  \A p \in DOMAIN plotters :
    ResolvedKeys(plotters[p]) = {} =>
      /\ plotters[p].outcome # "finished"
      /\ plotters[p].plot_data = << >>
      /\ plotters[p].pc = "done" => plotters[p].outcome = "error"

\* C18 witness: given a window and a non-empty store, run() has gone through
\* its loop over a selection that matches no key and has ended with error.
C18_Witness ==
  \E p \in DOMAIN plotters :
    /\ ResolvedKeys(plotters[p]) = {}
    /\ PreparedStore # EmptyDict
    /\ plotters[p].selected_signals # << >>
    /\ ~plotters[p].time_range.isNone
    /\ plotters[p].idx > Len(plotters[p].selected_signals)
    /\ plotters[p].pc = "done"
    /\ plotters[p].outcome = "error"

\* The values of the samples of a sequence of samples, as a set.
ValueSet(samples) == {samples[i][2] : i \in DOMAIN samples}

\* C20: with normalize on, the values of each output signal are
\* (v - min) / (max - min) of the filtered values of that signal when
\* max > min, so they lie in [0, 1] and 0 and 1 both occur, and are the
\* filtered values themselves when these are all equal; with normalize off
\* they are the filtered values themselves.
C20_Normalization ==
  \A p \in DOMAIN plotters :
    \A key \in DOMAIN plotters[p].plot_data :
      LET kept == Within(PreparedStore[key], plotters[p].start_time, plotters[p].end_time)
          out == plotters[p].plot_data[key].values
          lo == CHOOSE v \in ValueSet(kept) : \A w \in ValueSet(kept) : v <= w
          hi == CHOOSE v \in ValueSet(kept) : \A w \in ValueSet(kept) : v >= w
      IN /\ DOMAIN out = DOMAIN kept
         /\ IF plotters[p].normalize /\ hi > lo
            THEN /\ \A i \in DOMAIN out :
                      /\ out[i][2] > 0
                      /\ out[i][1] * (hi - lo) = (kept[i][2] - lo) * out[i][2]
                      /\ 0 <= out[i][1] /\ out[i][1] <= out[i][2]
                 /\ \E i \in DOMAIN out : out[i][1] = 0
                 /\ \E i \in DOMAIN out : out[i][1] = out[i][2]
            ELSE \A i \in DOMAIN out : out[i] = <<kept[i][2], 1>>

\* C20 witness: one output with normalize on holds a signal of three equal
\* values, left as they are, and a signal of more than two distinct values.
C20_Witness ==
  \E p \in DOMAIN plotters :
    /\ plotters[p].outcome = "finished"
    /\ plotters[p].normalize
    /\ \E k1, k2 \in DOMAIN plotters[p].plot_data :
         /\ plotters[p].plot_data[k1].values = << <<5, 1>>, <<5, 1>>, <<5, 1>> >>
         /\ Cardinality({plotters[p].plot_data[k2].values[i] :
                           i \in DOMAIN plotters[p].plot_data[k2].values}) >= 3

\* The keys of a selection, display prefix removed, that are in the store.
RequestKeys(selected) == {selected[i].key : i \in DOMAIN selected} \cap DOMAIN PreparedStore

\* A plot request can be made, and its custom window holds no sample of any
\* selected signal that is in the store.
EmptyWindowRequest(selected, custom) ==
  /\ ~crashed
  /\ ~log_data.isNone
  /\ Len(plotters) < MaxPlots
  /\ ~custom.isNone
  /\ RequestKeys(selected) # {}
  /\ \A key \in RequestKeys(selected) :
       Within(PreparedStore[key], custom.start, custom.end) = << >>

\* [min t, max t] over the samples of the selected signals in the store.
FullRange(selected) ==
  LET times == TimesOf(PreparedStore, RequestKeys(selected))
  IN Range(CHOOSE x \in times : \A y \in times : x <= y,
           CHOOSE x \in times : \A y \in times : x >= y)

RECURSIVE SumOf(_)
SumOf(values) ==
  IF values = << >> THEN <<0, 1>>
  ELSE LET rest == SumOf(Tail(values))
       IN <<Head(values)[1] * rest[2] + rest[1] * Head(values)[2], Head(values)[2] * rest[2]>>

\* a <= b for fractions with positive denominators.
AtMost(a, b) == a[1] * b[2] <= b[1] * a[2]

\* C21: every signal of the output of a PlotterThread has stats; min and max
\* are values returned for the signal, below and above all of them, and mean
\* times the number of returned values is their sum.
C21_StatsOfReturnedValues ==
  \A p \in DOMAIN plotters :
    \A key \in DOMAIN plotters[p].plot_data :
      LET out == plotters[p].plot_data[key].values
          stats == plotters[p].plot_data[key].stats
      IN /\ out # << >>
         /\ \E i \in DOMAIN out : out[i] = stats.min
         /\ \E i \in DOMAIN out : out[i] = stats.max
         /\ \A i \in DOMAIN out : AtMost(stats.min, out[i]) /\ AtMost(out[i], stats.max)
         /\ stats.mean[2] > 0
         /\ stats.mean[1] * SumOf(out)[2] * Len(out) = SumOf(out)[1] * stats.mean[2]

\* C21 witness: a finished output with normalize on holds a signal whose
\* values were rescaled, with min 0, max 1 and a mean that is no integer.
C21_Witness ==
  \E p \in DOMAIN plotters :
    /\ plotters[p].outcome = "finished"
    /\ plotters[p].normalize
    /\ \E key \in DOMAIN plotters[p].plot_data :
         /\ Len(plotters[p].plot_data[key].values) >= 3
         /\ plotters[p].plot_data[key].stats.min = <<0, 1>>
         /\ plotters[p].plot_data[key].stats.max = <<1, 1>>
         /\ plotters[p].plot_data[key].stats.mean[2] > 1
         /\ \E i \in DOMAIN PreparedStore[key] : PreparedStore[key][i][2] > 1

\* C22: every progress value a run emits is an integer in 0..100, whether
\* the line count is below or above the number of frames; the values of one
\* run never decrease; a run whose line count is 0 emits none.
C22_ProgressInRange ==
  /\ \A t \in Threads :
       /\ \A i \in DOMAIN threads[t].progress :
            /\ threads[t].progress[i] \in 0..100
            /\ i > 1 => threads[t].progress[i - 1] <= threads[t].progress[i]
       /\ FileOf(threads[t].file).lines = 0 => threads[t].progress = << >>
  /\ \A i \in DOMAIN queue :
       queue[i].kind = "progress" =>
         /\ queue[i].val \in 0..100
         /\ FileOf(threads[queue[i].src].file).lines # 0

\* C22 witness: a run over a file with fewer lines than frames has emitted a
\* value for each of its three frames, the last two held at 100.
C22_Witness ==
  \E t \in Threads :
    /\ FileOf(threads[t].file).lines < Len(RecordsOf(t))
    /\ threads[t].progress = <<50, 100, 100>>
    /\ threads[t].outcomes = <<"finished">>

\* C23: load_dbc_file of a file that does not parse changes neither the
\* schema held, nor the published frame table, nor the published series map,
\* nor any thread or queued emission; and every load_log_file creates a
\* LogLoaderThread, not yet started on its file, with the schema the
\* application holds at that moment, or none.
C23_FailedSchemaLoadChangesNothing ==
  [][/\ load_dbc_file("broken.dbc") =>
          /\ db' = db
          /\ log_data' = log_data
          /\ signals_data' = signals_data
          /\ heap' = heap
          /\ threads' = threads
          /\ queue' = queue
     /\ \A file \in AppFiles :
          load_log_file(file) =>
            /\ Len(threads') = Len(threads) + 1
            /\ threads'[Len(threads')].db = db
            /\ threads'[Len(threads')].file = file
            /\ threads'[Len(threads')].pc = "start"]_vars

\* C23 witness: a schema is held and tables decoded with it are published;
\* load_dbc_file of the file that does not parse can run here and keeps the
\* schema, and a second load has been requested and runs with that schema.
C23_Witness ==
  /\ db = "DB1"
  /\ ~log_data.isNone
  /\ SignalKey("Engine", "RPM") \in DOMAIN heap[signals_data]
  /\ ENABLED (load_dbc_file("broken.dbc") /\ db' = "DB1")
  /\ Len(threads) = 2
  /\ threads[2].db = "DB1"
  /\ threads[2].pc = "loop"

\* C24: the frame table and the series map that finished carries are those
\* the loop of run() yields from the records of the file and the schema of
\* the run alone: two runs over the same frames with the same schema, or
\* both without, emit the same tables whatever the line count of each file.
C24_SameFramesSameTables ==
  \A i \in FinishedEvents :
    LET t == queue[i].src
    IN /\ queue[i].df = LoadedFrames(RecordsOf(t), Len(RecordsOf(t)))
       /\ heap[queue[i].sd] = LoadedStore(threads[t].db, RecordsOf(t), Len(RecordsOf(t)))

\* C24 witness: finished is emitted, with a schema and a non-empty map, by a
\* run whose file has fewer lines than frames and that has emitted progress.
C24_Witness ==
  \E i \in FinishedEvents :
    /\ threads[queue[i].src].db = "DB1"
    /\ FileOf(threads[queue[i].src].file).lines \in 1..(Len(queue[i].df) - 1)
    /\ threads[queue[i].src].progress # << >>
    /\ heap[queue[i].sd] # EmptyDict

\* C25: the schema a LogLoaderThread was created with never changes, the
\* dict it fills holds what its frames so far give with that schema, whatever
\* load_dbc_file and clear_dbc do to the application's schema meanwhile, and
\* the keys of every series map carried by finished are all of the form
\* ID_0x<hex>.Byte<i> when the run has no schema and none of them is
\* otherwise.
C25_DecodeModeFixedPerRun ==
  /\ [](\A t \in Threads :
          threads[t].pc = "loop" =>
            heap[threads[t].sd] = LoadedStore(threads[t].db, RecordsOf(t), threads[t].pos))
  /\ [](\A i \in FinishedEvents :
          \A key \in DOMAIN heap[queue[i].sd] :
            key[1] \in ByteKeyPrefixes <=> threads[queue[i].src].db = NoDb)
  /\ [][\A t \in Threads : threads'[t].db = threads[t].db]_vars

\* C25 witness: finished carries a non-empty map of a run that was created
\* without a schema, while the application now holds one.
C25_Witness ==
  \E i \in FinishedEvents :
    /\ threads[queue[i].src].db = NoDb
    /\ db = "DB1"
    /\ Cardinality(DOMAIN heap[queue[i].sd]) >= 2

\* C26: no step of an ingestion other than the slot of finished changes the
\* published frame table or the published series map: not the request
\* (load_log_file), not a step of run(), not the slot of progress and not
\* on_log_error, which changes the log status label only.
C26_FailureKeepsPublishedTables ==
  [][/\ (\/ \E file \in AppFiles : load_log_file(file)
         \/ \E t \in Threads : \/ LoaderStart(t)
                               \/ LoaderSkip(t)
                               \/ LoaderReaderRaises(t)
                               \/ LoaderFrame(t)
         \/ on_progress
         \/ on_log_error)
        => /\ log_data' = log_data
           /\ signals_data' = signals_data
           /\ heap'[signals_data'] = heap[signals_data]
     /\ on_log_error
        => /\ db' = db
           /\ log_file' = log_file
           /\ progress_bar' = progress_bar
           /\ loader_thread' = loader_thread
           /\ plotters' = plotters]_vars

\* C26 witness: tables are published, a later load has ended with error and
\* on_log_error has run for it.
C26_Witness ==
  \E t \in Threads :
    /\ t = loader_thread
    /\ threads[t].outcomes = <<"error">>
    /\ threads[t].delivered
    /\ log_file = threads[t].file
    /\ log_status = "Log: None"
    /\ Len(log_data.rows) = 2
    /\ heap[signals_data] # EmptyDict

====
